---- MODULE Spec2Model ----
(***************************************************************************)
(* Model of onboard.py: four provider functions (Google Workspace, Zoom,   *)
(* Dropbox, Slack) and the __main__ block that calls them in sequence.     *)
(*                                                                         *)
(* The behaviour of the outside world during one provider call (does the   *)
(* credential file load, what does each endpoint answer, what is in the    *)
(* response body) is drawn when the function is called and kept in env,    *)
(* so that a property can relate what the world did to what the function   *)
(* returned, logged and requested.                                         *)
(***************************************************************************)
EXTENDS Naturals, Sequences, FiniteSets

(* entry  which entry point runs: "main" or one provider function         *)
(* pc     the next call to make ("start", a provider), or how the run      *)
(*        ended: "returned" (direct call), "exited", "crashed"             *)
(* calls  how many times each provider function has been invoked           *)
(* ret    what each provider call produced: "none" (not called), "True",   *)
(*        "False", or "raise" (an exception left the function)             *)
(* log    the entries written through logging, in order                    *)
(* reqs   the requests sent to the external APIs, in order                 *)
(* env    for each provider, the world during its call                     *)
VARIABLES entry, pc, calls, ret, log, reqs, env

vars == <<entry, pc, calls, ret, log, reqs, env>>

(* The four provider functions, in the order __main__ calls them. *)
Providers == {"google", "zoom", "dropbox", "slack"}

(* Entry points: the script run as __main__, or one provider function      *)
(* called directly by an importer of the module.                           *)
Entries == {"main"} \cup Providers

(* Outcome of one HTTP/API request: a success status, a transport failure  *)
(* (the client raises), or an error status (raise_for_status / execute()   *)
(* raises).                                                                *)
Resp == {"ok", "transport", "http_error"}

(* Response bodies: JSON with ok true, JSON with ok false, JSON without an *)
(* ok field (other endpoints), or text that does not decode as JSON.       *)
Bodies == {"ok_true", "ok_false", "json", "undecodable"}

(* Error codes a chat.postMessage body can carry next to ok = false. *)
ErrCodes == {"channel_not_found", "not_authed"}

(* The world during one provider call. *)
NoEnv ==
    [creds |-> FALSE, r1 |-> "na", r2 |-> "na", found |-> FALSE,
     group |-> FALSE, body |-> "na", error |-> "na", jsonIsReqExc |-> FALSE]

GoogleEnvs ==
    [creds : BOOLEAN, r1 : Resp, r2 : Resp, found : {FALSE}, group : {FALSE},
     body : {"json"}, error : {"na"}, jsonIsReqExc : {FALSE}]

ZoomEnvs(e) ==
    [creds : {TRUE}, r1 : Resp, r2 : Resp, found : BOOLEAN,
     group : IF e = "main" THEN {TRUE} ELSE BOOLEAN,
     body : {"json", "undecodable"}, error : {"na"}, jsonIsReqExc : {FALSE}]

DropboxEnvs ==
    [creds : {TRUE}, r1 : Resp, r2 : {"na"}, found : {FALSE}, group : {FALSE},
     body : {"json", "undecodable"}, error : {"na"}, jsonIsReqExc : {FALSE}]

SlackEnvs ==
    [creds : {TRUE}, r1 : Resp, r2 : {"na"}, found : {FALSE}, group : {FALSE},
     body : {"ok_true", "ok_false", "undecodable"}, error : ErrCodes,
     jsonIsReqExc : BOOLEAN]

(* ---- logging ---------------------------------------------------------- *)

Entry(who, level, msg, detail) ==
    [who |-> who, level |-> level, msg |-> msg, email |-> TRUE, detail |-> detail]

Info(who, msg)          == Entry(who, "INFO", msg, "")
Warn(who, msg)          == Entry(who, "WARNING", msg, "")
Error(who, msg, detail) == Entry(who, "ERROR", msg, detail)

Req(who, name, resp) == [who |-> who, name |-> name, resp |-> resp]

(* ---- what a provider call produces ------------------------------------ *)

Returns(value, entries, requests) ==
    [ret |-> value, log |-> entries, reqs |-> requests]

Raises(entries, requests) ==
    [ret |-> "raise", log |-> entries, reqs |-> requests]

(* ---- onboard_google_workspace ------------------------------------------ *)

(* Mutant: the group insert is issued although users().insert raised. *)
onboard_google_workspace_addAnyway(e) ==
    IF ~e.creds
    THEN Raises(<<>>, <<>>)
    ELSE IF e.r1 # "ok"
    THEN Returns("False",
                 <<Error("google", "Error during Google Workspace onboarding", e.r1)>>,
                 <<Req("google", "create_user", e.r1), Req("google", "add_member", e.r2)>>)
    ELSE IF e.r2 # "ok"
    THEN Returns("False",
                 <<Info("google", "Google Workspace user created"),
                   Error("google", "Error during Google Workspace onboarding", e.r2)>>,
                 <<Req("google", "create_user", e.r1), Req("google", "add_member", e.r2)>>)
    ELSE Returns("True",
                 <<Info("google", "Google Workspace user created"),
                   Info("google", "User added to group")>>,
                 <<Req("google", "create_user", e.r1), Req("google", "add_member", e.r2)>>)

(* Mutant: the second logging.info call is missing. *)
onboard_google_workspace_oneInfo(e) ==
    IF ~e.creds
    THEN Raises(<<>>, <<>>)
    ELSE IF e.r1 # "ok"
    THEN Returns("False",
                 <<Error("google", "Error during Google Workspace onboarding", e.r1)>>,
                 <<Req("google", "create_user", e.r1)>>)
    ELSE IF e.r2 # "ok"
    THEN Returns("False",
                 <<Info("google", "Google Workspace user created"),
                   Error("google", "Error during Google Workspace onboarding", e.r2)>>,
                 <<Req("google", "create_user", e.r1), Req("google", "add_member", e.r2)>>)
    ELSE Returns("True",
                 <<Info("google", "Google Workspace user created")>>,
                 <<Req("google", "create_user", e.r1), Req("google", "add_member", e.r2)>>)

(* Lines 37-42 (imports, Credentials.from_service_account_file, build) run *)
(* before the try: a failure there propagates to the caller.  Inside the   *)
(* try, users().insert(...).execute() then groups().insert(...).execute(); *)
(* any exception of either is caught by `except Exception`, logged once    *)
(* and turned into False.                                                  *)
onboard_google_workspace(e) ==
    IF ~e.creds
    THEN Raises(<<>>, <<>>)
    ELSE IF e.r1 # "ok"
    THEN Returns("False",
                 <<Error("google", "Error during Google Workspace onboarding", e.r1)>>,
                 <<Req("google", "create_user", e.r1)>>)
    ELSE IF e.r2 # "ok"
    THEN Returns("False",
                 <<Info("google", "Google Workspace user created"),
                   Error("google", "Error during Google Workspace onboarding", e.r2)>>,
                 <<Req("google", "create_user", e.r1), Req("google", "add_member", e.r2)>>)
    ELSE Returns("True",
                 <<Info("google", "Google Workspace user created"),
                   Info("google", "User added to group")>>,
                 <<Req("google", "create_user", e.r1), Req("google", "add_member", e.r2)>>)

(* ---- onboard_zoom ------------------------------------------------------ *)

(* The module imports only `datetime` from datetime (line 4); the name     *)
(* `timedelta` used at line 85 resolves neither in the function, nor in    *)
(* the module globals, nor in the builtins.                                *)
timedelta_defined == FALSE

(* generate_jwt: building the payload evaluates timedelta(seconds=30). *)
generate_jwt == IF timedelta_defined THEN "token" ELSE "NameError"

(* The try block of onboard_zoom, lines 97-117. *)
zoom_try(e) ==
    IF e.r1 # "ok"
    THEN Returns("False",
                 <<Error("zoom", "Error interacting with Zoom API", e.r1)>>,
                 <<Req("zoom", "list_users", e.r1)>>)
    ELSE IF e.body = "undecodable"
    THEN Returns("False",
                 <<Error("zoom", "Error interacting with Zoom API", "json")>>,
                 <<Req("zoom", "list_users", e.r1)>>)
    ELSE IF ~e.found
    THEN Returns("True",
                 <<Warn("zoom", "Zoom user not found")>>,
                 <<Req("zoom", "list_users", e.r1)>>)
    ELSE IF ~e.group
    THEN Returns("True",
                 <<Info("zoom", "Zoom user already exists")>>,
                 <<Req("zoom", "list_users", e.r1)>>)
    ELSE IF e.r2 # "ok"
    THEN Returns("False",
                 <<Info("zoom", "Zoom user already exists"),
                   Error("zoom", "Error interacting with Zoom API", e.r2)>>,
                 <<Req("zoom", "list_users", e.r1), Req("zoom", "add_group_member", e.r2)>>)
    ELSE Returns("True",
                 <<Info("zoom", "Zoom user already exists"),
                   Info("zoom", "User added to Zoom group")>>,
                 <<Req("zoom", "list_users", e.r1), Req("zoom", "add_group_member", e.r2)>>)

(* jwt_token = generate_jwt(...) at line 89 is outside the try. *)
onboard_zoom(e) ==
    IF generate_jwt = "NameError"
    THEN Raises(<<>>, <<>>)
    ELSE zoom_try(e)

(* ---- onboard_dropbox --------------------------------------------------- *)

(* Mutant: a failed post is sent a second time before giving up. *)
onboard_dropbox_retry(e) ==
    IF e.r1 # "ok"
    THEN Returns("False",
                 <<Error("dropbox", "Error inviting to Dropbox folder", e.r1)>>,
                 <<Req("dropbox", "add_folder_member", e.r1),
                   Req("dropbox", "add_folder_member", e.r1)>>)
    ELSE Returns("True",
                 <<Info("dropbox", "Invited to Dropbox folder")>>,
                 <<Req("dropbox", "add_folder_member", e.r1)>>)

(* requests.post then raise_for_status; the response body is never read,   *)
(* so nothing in the try raises json.JSONDecodeError and the second except *)
(* clause (lines 146-148) is never entered.                                *)
onboard_dropbox(e) ==
    IF e.r1 # "ok"
    THEN Returns("False",
                 <<Error("dropbox", "Error inviting to Dropbox folder", e.r1)>>,
                 <<Req("dropbox", "add_folder_member", e.r1)>>)
    ELSE Returns("True",
                 <<Info("dropbox", "Invited to Dropbox folder")>>,
                 <<Req("dropbox", "add_folder_member", e.r1)>>)

(* ---- welcome_slack_user ------------------------------------------------ *)

(* Mutant: the ok field of the body is not consulted. *)
welcome_slack_user_ignoreOk(e) ==
    IF e.r1 # "ok"
    THEN Returns("False",
                 <<Error("slack", "Error sending message to Slack", e.r1)>>,
                 <<Req("slack", "post_message", e.r1)>>)
    ELSE IF e.body = "undecodable"
    THEN IF e.jsonIsReqExc
         THEN Returns("False",
                      <<Error("slack", "Error sending message to Slack", "json")>>,
                      <<Req("slack", "post_message", e.r1)>>)
         ELSE Raises(<<>>, <<Req("slack", "post_message", e.r1)>>)
    ELSE Returns("True",
                 <<Info("slack", "Welcome message sent")>>,
                 <<Req("slack", "post_message", e.r1)>>)

(* requests.post, raise_for_status, response.json(), then the test of      *)
(* response_data.get("ok").  A body that does not decode raises from       *)
(* response.json(): with a requests release whose JSONDecodeError derives  *)
(* from RequestException the first except clause takes it; otherwise the   *)
(* second clause is entered and its f-string reads `e`, a local that was   *)
(* never bound, so UnboundLocalError leaves the function before anything   *)
(* is logged.                                                              *)
welcome_slack_user(e) ==
    IF e.r1 # "ok"
    THEN Returns("False",
                 <<Error("slack", "Error sending message to Slack", e.r1)>>,
                 <<Req("slack", "post_message", e.r1)>>)
    ELSE IF e.body = "undecodable"
    THEN IF e.jsonIsReqExc
         THEN Returns("False",
                      <<Error("slack", "Error sending message to Slack", "json")>>,
                      <<Req("slack", "post_message", e.r1)>>)
         ELSE Raises(<<>>, <<Req("slack", "post_message", e.r1)>>)
    ELSE IF e.body = "ok_true"
    THEN Returns("True",
                 <<Info("slack", "Welcome message sent")>>,
                 <<Req("slack", "post_message", e.r1)>>)
    ELSE Returns("False",
                 <<Error("slack", "Failed to send welcome message to Slack", e.error)>>,
                 <<Req("slack", "post_message", e.r1)>>)

(* ---- __main__ ---------------------------------------------------------- *)

(* all([...]) at line 205 and the line it selects. *)
AggregateLine(r) ==
    IF \A p \in Providers : r[p] = "True"
    THEN Info("main", "Onboarding process completed successfully")
    ELSE Warn("main", "Onboarding process completed with some potential failures")

(* The statement of __main__ that follows the call of provider p. *)
NextAfter(p) ==
    CASE p = "google"  -> "zoom"
      [] p = "zoom"    -> "dropbox"
      [] p = "dropbox" -> "slack"
      [] p = "slack"   -> "exited"

Init ==
    /\ entry \in Entries
    /\ pc = IF entry = "main" THEN "start" ELSE entry
    /\ calls = [p \in Providers |-> 0]
    /\ ret = [p \in Providers |-> "none"]
    /\ log = <<>>
    /\ reqs = <<>>
    /\ env = [p \in Providers |-> NoEnv]

(* Line 198: the first statement of __main__. *)
Start ==
    /\ entry = "main"
    /\ pc = "start"
    /\ log' = Append(log, Info("main", "Starting onboarding process"))
    /\ pc' = "google"
    /\ UNCHANGED <<entry, calls, ret, reqs, env>>

(* One call of provider p in world e with outcome out.  An exception that  *)
(* leaves the function is not caught by __main__ either (no try around     *)
(* lines 200-203): the interpreter prints the traceback and exits.  When   *)
(* the last call of __main__ returns, lines 205-208 run.                   *)
Call(p, e, out) ==
    /\ env' = [env EXCEPT ![p] = e]
    /\ calls' = [calls EXCEPT ![p] = @ + 1]
    /\ ret' = [ret EXCEPT ![p] = out.ret]
    /\ reqs' = reqs \o out.reqs
    /\ log' = IF out.ret # "raise" /\ entry = "main" /\ NextAfter(p) = "exited"
              THEN Append(log \o out.log, AggregateLine(ret'))
              ELSE log \o out.log
    /\ pc' = IF out.ret = "raise" THEN "crashed"
             ELSE IF entry = "main" THEN NextAfter(p)
             ELSE "returned"
    /\ UNCHANGED entry

(* Line 200, or a direct call of onboard_google_workspace. *)
CallGoogle ==
    /\ pc = "google"
    /\ \E e \in GoogleEnvs : Call("google", e, onboard_google_workspace(e))

(* Line 201, or a direct call of onboard_zoom. *)
CallZoom ==
    /\ pc = "zoom"
    /\ \E e \in ZoomEnvs(entry) : Call("zoom", e, onboard_zoom(e))

(* Line 202, or a direct call of onboard_dropbox. *)
CallDropbox ==
    /\ pc = "dropbox"
    /\ \E e \in DropboxEnvs : Call("dropbox", e, onboard_dropbox(e))

(* Lines 203-208, or a direct call of welcome_slack_user. *)
CallSlack ==
    /\ pc = "slack"
    /\ \E e \in SlackEnvs : Call("slack", e, welcome_slack_user(e))

Next == Start \/ CallGoogle \/ CallZoom \/ CallDropbox \/ CallSlack

Spec == Init /\ [][Next]_vars

(* ======================================================================= *)
(* Properties                                                              *)
(* ======================================================================= *)

(* Positions of the log entries of level lv written by who. *)
Logged(who, lv) == {i \in DOMAIN log : log[i].who = who /\ log[i].level = lv}

(* Positions of the requests named n issued by provider p. *)
Issued(p, n) == {i \in DOMAIN reqs : reqs[i].who = p /\ reqs[i].name = n}

(* Positions of all requests issued by provider p. *)
IssuedBy(p) == {i \in DOMAIN reqs : reqs[i].who = p}

(* The __main__ run is over: it fell off the end or died on an exception. *)
RunOver == entry = "main" /\ pc \in {"exited", "crashed"}

(* Positions of the two aggregate lines of __main__. *)
AggregateLines ==
    {i \in DOMAIN log : log[i].who = "main"
                        /\ log[i].msg # "Starting onboarding process"}

(* In world e, a request that provider p is to issue meets a transport     *)
(* failure or an error status.                                             *)
RequestFails(p, e) ==
    CASE p = "google"  -> e.creds /\ (e.r1 # "ok" \/ e.r2 # "ok")
      [] p = "zoom"    -> \/ e.r1 # "ok"
                          \/ e.body = "json" /\ e.found /\ e.group /\ e.r2 # "ok"
      [] p = "dropbox" -> e.r1 # "ok"
      [] p = "slack"   -> e.r1 # "ok"

(* In world e, every request provider p is to issue is answered by its     *)
(* success payload.                                                        *)
AllSucceed(p, e) ==
    CASE p = "google"  -> e.creds /\ e.r1 = "ok" /\ e.r2 = "ok"
      [] p = "zoom"    -> e.r1 = "ok" /\ e.body = "json" /\ e.found /\ e.r2 = "ok"
      [] p = "dropbox" -> e.r1 = "ok"
      [] p = "slack"   -> e.r1 = "ok" /\ e.body = "ok_true"

(* C1: when a run of __main__ is over, each of the four providers has been *)
(* invoked exactly once, whatever the earlier providers did.               *)
C1_EveryProviderInvokedOnce ==
    RunOver => \A p \in Providers : calls[p] = 1

(* C2: no exception ever leaves a provider function: every call returns    *)
(* True or False, and the process never dies on an uncaught exception.     *)
C2_NoExceptionEscapes ==
    /\ \A p \in Providers : ret[p] # "raise"
    /\ pc # "crashed"

(* C3: when a run of __main__ is over, exactly one aggregate line has been *)
(* logged: the success line if all four providers returned True, the       *)
(* warning otherwise.                                                      *)
C3_ExactlyOneAggregateLine ==
    RunOver =>
        /\ Cardinality(AggregateLines) = 1
        /\ \A i \in AggregateLines :
              (log[i].level = "INFO") <=> (\A p \in Providers : ret[p] = "True")
        /\ \A i \in AggregateLines :
              (log[i].level = "WARNING") <=> (\E p \in Providers : ret[p] # "True")

(* C4: for each provider, a call during which one of its requests meets a  *)
(* transport failure or an error status returns False and writes exactly   *)
(* one error entry, which carries the employee's email.                    *)
C4_RequestFailureIsFalseWithOneError ==
    \A p \in Providers :
        (calls[p] = 1 /\ RequestFails(p, env[p])) =>
            /\ ret[p] = "False"
            /\ Cardinality(Logged(p, "ERROR")) = 1
            /\ \A i \in Logged(p, "ERROR") : log[i].email

C6_AbsentUserIsTrueWithWarning ==
    (/\ calls["zoom"] = 1
     /\ env["zoom"].r1 = "ok"
     /\ env["zoom"].body = "json"
     /\ ~env["zoom"].found) =>
        /\ ret["zoom"] = "True"
        /\ Cardinality(Logged("zoom", "WARNING")) = 1
        /\ Logged("zoom", "ERROR") = {}
        /\ Cardinality(Issued("zoom", "list_users")) = 1
        /\ IssuedBy("zoom") = Issued("zoom", "list_users")

(* C7: onboard_dropbox returns False under "Error inviting" when the post  *)
(* meets a transport failure or an error status, returns False under the   *)
(* distinct "Error decoding Dropbox response" when a 2xx response has a    *)
(* body that does not decode, and in neither case returns True or raises.  *)
C7_HttpAndDecodeFailuresDistinct ==
    calls["dropbox"] = 1 =>
        /\ env["dropbox"].r1 # "ok" =>
              /\ ret["dropbox"] = "False"
              /\ \A i \in Logged("dropbox", "ERROR") :
                    log[i].msg = "Error inviting to Dropbox folder"
              /\ Cardinality(Logged("dropbox", "ERROR")) = 1
        /\ (env["dropbox"].r1 = "ok" /\ env["dropbox"].body = "undecodable") =>
              /\ ret["dropbox"] = "False"
              /\ \A i \in Logged("dropbox", "ERROR") :
                    log[i].msg = "Error decoding Dropbox response"
              /\ Cardinality(Logged("dropbox", "ERROR")) = 1

(* C8: welcome_slack_user returns True exactly when the post got a 2xx     *)
(* status and the body's ok field is truthy; a 2xx response with ok false  *)
(* returns False and writes an error entry carrying the body's error code. *)
C8_TrueIffStatusAndOk ==
    calls["slack"] = 1 =>
        /\ (ret["slack"] = "True") <=>
              (env["slack"].r1 = "ok" /\ env["slack"].body = "ok_true")
        /\ (env["slack"].r1 = "ok" /\ env["slack"].body = "ok_false") =>
              /\ ret["slack"] = "False"
              /\ Cardinality(Logged("slack", "ERROR")) = 1
              /\ \A i \in Logged("slack", "ERROR") :
                    log[i].detail = env["slack"].error

C8_Witness ==
    /\ calls["slack"] = 1
    /\ env["slack"].r1 = "ok"
    /\ env["slack"].body = "ok_false"
    /\ env["slack"].error = "channel_not_found"
    /\ ret["slack"] = "False"

(* C9: in onboard_google_workspace the add-member request is issued only   *)
(* after a create-user request that completed without error; the function  *)
(* returns True only if both requests completed; when create-user succeeds *)
(* and add-member fails it returns False and issues nothing else.          *)
C9_AddMemberOnlyAfterCreate ==
    /\ \A i \in Issued("google", "add_member") :
          \E j \in Issued("google", "create_user") : j < i /\ reqs[j].resp = "ok"
    /\ ret["google"] = "True" =>
          /\ \E j \in Issued("google", "create_user") : reqs[j].resp = "ok"
          /\ \E i \in Issued("google", "add_member") : reqs[i].resp = "ok"
    /\ (/\ calls["google"] = 1
        /\ env["google"].creds
        /\ env["google"].r1 = "ok"
        /\ env["google"].r2 # "ok") =>
          /\ ret["google"] = "False"
          /\ Cardinality(IssuedBy("google")) = 2
          /\ IssuedBy("google") =
                Issued("google", "create_user") \cup Issued("google", "add_member")

C9_Witness ==
    /\ calls["google"] = 1
    /\ env["google"].creds
    /\ env["google"].r1 = "ok"
    /\ env["google"].r2 = "http_error"
    /\ ret["google"] = "False"
    /\ Cardinality(IssuedBy("google")) = 2

(* The request names of the program. *)
RequestNames ==
    {"create_user", "add_member", "list_users", "add_group_member",
     "add_folder_member", "post_message"}

(* C10: no request is retried: each provider issues each of its requests   *)
(* at most once, whatever the responses, and the conferencing group        *)
(* add-member request only when the email was found and a default group is *)
(* configured.                                                             *)
C10_NoRequestRetried ==
    /\ \A p \in Providers : \A n \in RequestNames : Cardinality(Issued(p, n)) <= 1
    /\ \A i \in DOMAIN reqs :
          reqs[i].name \in
             CASE reqs[i].who = "google"  -> {"create_user", "add_member"}
               [] reqs[i].who = "zoom"    -> {"list_users", "add_group_member"}
               [] reqs[i].who = "dropbox" -> {"add_folder_member"}
               [] reqs[i].who = "slack"   -> {"post_message"}
    /\ Issued("zoom", "add_group_member") # {} =>
          env["zoom"].found /\ env["zoom"].group

C10_Witness ==
    /\ calls["dropbox"] = 1
    /\ env["dropbox"].r1 = "transport"
    /\ ret["dropbox"] = "False"
    /\ Cardinality(Issued("dropbox", "add_folder_member")) = 1

====
